---- MODULE Spec2Model ----
(***************************************************************************)
(* Model of rough_draft.py: the Selenium scraper of the Muskingum county   *)
(* auditor's site.  prepare_webdriver opens the browser session,           *)
(* scrape_parcel_data extracts one parcel's record, main runs the          *)
(* extraction over the parcel numbers in windows and writes one csv file   *)
(* per window.                                                             *)
(*                                                                         *)
(* The browser (selenium) is the environment.  Each call of a function of  *)
(* the program is one action; what the browser does during that call is    *)
(* the action's input, drawn from the set of the browser's behaviours.     *)
(* Every selenium call the function makes is recorded in `calls`, with the *)
(* state of the session at the time of the call.                           *)
(***************************************************************************)
EXTENDS Naturals, Sequences, FiniteSets, TLC

\* ---------------------------------------------------------------- bounds
\* main's loop is `for idx in range(2140, parcel_numbers.shape[0], 10)` over
\* `parcel_numbers.iloc[idx:idx+10, ]`.  The start (2140) and the window size
\* (10) are the values of one run of a long scrape; here they are inputs of
\* the run, like the parcel list, and all three are bounded.
MaxLen == 3        \* parcel_numbers.shape[0] is at most this
MaxWindow == 2     \* the window size (step of the range) is at most this
MaxStart == 2      \* the start offset (first argument of the range) is at most this

\* the parcel numbers that may appear in parcel-numbers.csv: "001", "002", ..
Digits == << "1", "2", "3", "4", "5", "6", "7", "8", "9" >>
Parcel(i) == "00" \o Digits[i]
ParcelIds == { Parcel(i) : i \in 1..MaxLen }

None == "None"

Min(a, b) == IF a < b THEN a ELSE b

\* ------------------------------------------------------------- constants
\* URLS['parcel-id-data-fmt'].format(parcel_id = parcel_id)
parcel_id_data_fmt(parcel_id) ==
    "http://muskingumcountyauditor.org/Data.aspx?ParcelID=" \o parcel_id

\* the fields of the namedtuple, in order
HousingData ==
    << "parcelNumber", "address", "appraisedValue", "numStories", "yearBuilt",
       "numBedrooms", "numFullBaths", "numHalfBaths", "livingArea",
       "basement", "basementArea" >>

\* "ContentPlaceHolder1_{}_fvData{}_{}".format(a, b, c)
id_fmt(a, b, c) == "ContentPlaceHolder1_" \o a \o "_fvData" \o b \o "_" \o c

address_id == id_fmt("Base", "Profile", "AddressLabel")
valuation_id == id_fmt("Valuation", "Valuation", "Label1")
num_stories_id == id_fmt("Residential", "Residential", "Label2")
year_built_id == id_fmt("Residential", "Residential", "YearBuiltLabel")
num_bed_id == id_fmt("Residential", "Residential", "NumberOfBedroomsLabel")
num_full_bath_id == id_fmt("Residential", "Residential", "NumberOfFullBathsLabel")
num_half_bath_id == id_fmt("Residential", "Residential", "NumberOfHalfBathsLabel")
living_area_id == id_fmt("Residential", "Residential", "FinishedLivingAreaLabel")
basement_id == id_fmt("Residential", "Residential", "Label1")
basement_area_id == id_fmt("Residential", "Residential", "Label4")

\* the element ids of the residential try block, in the order of its lookups
residential_ids ==
    << num_stories_id, year_built_id, num_bed_id, num_full_bath_id,
       num_half_bath_id, living_area_id, basement_id, basement_area_id >>

\* the JavaScript of the two tab changes
valuation_tab == "__doPostBack('ctl00$ContentPlaceHolder1$mnuData','2')"
residential_tab == "__doPostBack('ctl00$ContentPlaceHolder1$mnuData','8')"

button_css_id == "ContentPlaceHolder1_btnDisclaimerAccept"
fmt_file_path(idx) == << "housing_data_", idx, ".csv" >>

\* ------------------------------------------------------------ the browser
\* A selenium session: whether a browser process is alive behind it, the URL
\* of the last driver.get, and the last script executed since that get.
NoDriver == [open |-> FALSE, url |-> None, script |-> None]

\* webdriver.Firefox()
Firefox == [open |-> TRUE, url |-> None, script |-> None]

\* driver.get(url): a new page; no tab change has been issued on it yet
Get(drv, url) == [drv EXCEPT !.url = url, !.script = None]

\* driver.execute_script(script)
ExecuteScript(drv, script) == [drv EXCEPT !.script = script]

\* Quit with the bug of a quit that does not end the browser process
QuitLeavesOpen(drv) == drv

\* driver.quit()
Quit(drv) == [drv EXCEPT !.open = FALSE]

\* The text the site shows in element `id` of the page the session is on.
Text(drv, id) == << drv.url, id >>

\* One recorded selenium call: the operation, its argument, the session's
\* page at the time of the call and whether the call returned or raised.
Call(op, arg, drv, ok) ==
    [op |-> op, arg |-> arg, url |-> drv.url, script |-> drv.script,
     open |-> drv.open, ok |-> ok]

\* What the browser does during one call of prepare_webdriver: whether the
\* launch, the navigation, the lookup of the button and its click succeed.
\* A call that is not reached has no outcome (kept TRUE).
PrepareAnswers ==
    { a \in [launch : BOOLEAN, get : BOOLEAN, find : BOOLEAN, click : BOOLEAN] :
        /\ ~a.launch => a.get
        /\ ~a.get => a.find
        /\ ~a.find => a.click }

\* What the browser does during one call of scrape_parcel_data: whether the
\* navigation, the two scripts and the lookups (find_element_by_id(..).text)
\* succeed.  residential is the position of the first lookup of the
\* residential try block that raises, 0 when none does.  A call that is not
\* reached has no outcome (kept TRUE / 0).
ScrapeAnswers ==
    { a \in [get : BOOLEAN, address : BOOLEAN, valuation_tab : BOOLEAN,
             valuation : BOOLEAN, residential_tab : BOOLEAN,
             residential : 0..Len(residential_ids)] :
        /\ ~a.get => (a.address /\ a.valuation_tab)
        /\ ~a.valuation_tab => (a.valuation /\ a.residential_tab)
        /\ ~a.residential_tab => (a.residential = 0) }

\* ------------------------------------------------------ prepare_webdriver
\* prepare_webdriver with the bug of an except block that raises again
PrepareReraises(url, ans) ==
    LET launched == Firefox
        loaded == Get(launched, url)
        c1 == << Call("Firefox", None, NoDriver, ans.launch) >>
        c2 == Append(c1, Call("get", url, launched, ans.get))
        c3 == Append(c2, Call("find_element_by_id", button_css_id, loaded, ans.find))
        c4 == IF ans.find THEN Append(c3, Call("click", button_css_id, loaded, ans.click))
              ELSE c3
    IN  IF ~ans.launch
          THEN [raised |-> TRUE, error |-> "Firefox", driver |-> NoDriver, calls |-> c1]
        ELSE IF ~ans.get
          THEN [raised |-> TRUE, error |-> "get", driver |-> launched, calls |-> c2]
        ELSE IF ~(ans.find /\ ans.click)
          THEN [raised |-> TRUE,
                error |-> IF ans.find THEN "click" ELSE "find_element_by_id",
                driver |-> loaded, calls |-> c4]
        ELSE [raised |-> FALSE, error |-> None, driver |-> loaded, calls |-> c4]

\* prepare_webdriver(url) while the browser behaves as `ans`: the
\* session it returns or the call that raised, the selenium calls it made and
\* what it printed.
prepare_webdriver(url, ans) ==
    LET \* driver = webdriver.Firefox()
        launched == Firefox
        c1 == << Call("Firefox", None, NoDriver, ans.launch) >>
        \* driver.get(url)
        loaded == Get(launched, url)
        c2 == Append(c1, Call("get", url, launched, ans.get))
        \* try: driver.find_element_by_id(button_css_id).click()
        c3 == Append(c2, Call("find_element_by_id", button_css_id, loaded, ans.find))
        c4 == IF ans.find THEN Append(c3, Call("click", button_css_id, loaded, ans.click))
              ELSE c3
        \* except Exception as err: print(err)
        err == IF ans.find THEN "click" ELSE "find_element_by_id"
        c5 == IF ans.find /\ ans.click THEN c4
              ELSE Append(c4, Call("print", err, loaded, TRUE))
    IN  IF ~ans.launch
          THEN [raised |-> TRUE, error |-> "Firefox", driver |-> NoDriver, calls |-> c1]
        ELSE IF ~ans.get
          THEN [raised |-> TRUE, error |-> "get", driver |-> launched, calls |-> c2]
        ELSE [raised |-> FALSE, error |-> None, driver |-> loaded, calls |-> c5]

\* ----------------------------------------------------- scrape_parcel_data
\* driver.execute_script(valuation_tab)
AfterValuationTab(drv) == ExecuteScript(drv, valuation_tab)

\* AfterResidentialTab with the bug of a residential script that is not run
StaysOnValuationTab(drv) == drv

\* driver.execute_script(residential_tab)
AfterResidentialTab(drv) == ExecuteScript(drv, residential_tab)

\* The residential try block while its k-th lookup raises (k = 0: none
\* does): the lookups it makes, in order, up to the one that raises.
ResidentialCalls(drv, k) ==
    [i \in 1..(IF k = 0 THEN Len(residential_ids) ELSE k) |->
        Call("find_element_by_id", residential_ids[i], drv, i # k)]

\* Residential with the bug of an except block that resets only what was
\* not read
ResidentialKeepsRead(drv, k) ==
    [i \in 1..Len(residential_ids) |->
        IF k = 0 \/ i < k THEN Text(drv, residential_ids[i]) ELSE None]

\* The eight values the residential try/except leaves in num_stories ..
\* basement_area: the texts read, or None for all eight once a lookup raised.
Residential(drv, k) ==
    IF k = 0
      THEN [i \in 1..Len(residential_ids) |-> Text(drv, residential_ids[i])]
      ELSE [i \in 1..Len(residential_ids) |-> None]

\* HousingData(parcelNumber = .., .., basementArea = ..): the namedtuple
Row(parcel_number, address, valuation, res) ==
    << parcel_number, address, valuation >> \o res

\* scrape_parcel_data(row, driver) while the browser behaves as `ans`: the
\* HousingData row it returns or the call that raised, the session after the
\* call, the selenium calls it made and the try blocks whose except ran.
scrape_parcel_data(row, drv, ans) ==
    LET \* parcel_number = row['Parcel']
        parcel_number == row
        parcel_url == parcel_id_data_fmt(parcel_number)
        \* driver.get(parcel_url)
        c1 == << Call("get", parcel_url, drv, ans.get) >>
        d1 == Get(drv, parcel_url)
        \* try: address = driver.find_element_by_id(address_id).text
        c2 == Append(c1, Call("find_element_by_id", address_id, d1, ans.address))
        address == IF ans.address THEN Text(d1, address_id) ELSE None
        \* driver.execute_script(valuation_tab)
        c3 == Append(c2, Call("execute_script", valuation_tab, d1, ans.valuation_tab))
        d2 == AfterValuationTab(d1)
        \* try: valuation = driver.find_element_by_id(valuation_id).text
        c4 == Append(c3, Call("find_element_by_id", valuation_id, d2, ans.valuation))
        valuation == IF ans.valuation THEN Text(d2, valuation_id) ELSE None
        \* driver.execute_script(residential_tab)
        c5 == Append(c4, Call("execute_script", residential_tab, d2, ans.residential_tab))
        d3 == AfterResidentialTab(d2)
        \* try: num_stories = ... basement_area = ...  except: all None
        c6 == c5 \o ResidentialCalls(d3, ans.residential)
        res == Residential(d3, ans.residential)
        excepted == {g \in {"address"} : ~ans.address}
                    \cup {g \in {"valuation"} : ~ans.valuation}
                    \cup {g \in {"residential"} : ans.residential # 0}
    IN  IF ~ans.get
          THEN [raised |-> TRUE, error |-> "get", driver |-> drv, calls |-> c1,
                row |-> None, failed |-> {}]
        ELSE IF ~ans.valuation_tab
          THEN [raised |-> TRUE, error |-> "execute_script", driver |-> d1,
                calls |-> c3, row |-> None, failed |-> {}]
        ELSE IF ~ans.residential_tab
          THEN [raised |-> TRUE, error |-> "execute_script", driver |-> d2,
                calls |-> c5, row |-> None, failed |-> {}]
        ELSE [raised |-> FALSE, error |-> None, driver |-> d3, calls |-> c6,
              row |-> Row(parcel_number, address, valuation, res),
              failed |-> excepted]

\* -------------------------------------------------------------- pandas
\* iloc with the bug of a slice that includes its end
IlocInclusive(df, a, b) == SubSeq(df, a + 1, Min(b + 1, Len(df)))

\* df.iloc[a:b, ]: the rows at the 0-based positions a .. b-1 that exist
iloc(df, a, b) == SubSeq(df, a + 1, Min(b, Len(df)))

\* how to_csv writes one cell: None becomes the empty string
CsvCell(v) == IF v = None THEN "" ELSE v

\* CsvRows with the bug of a frame that drops the rows holding a None
CsvRowsDropna(rows) ==
    LET kept == SelectSeq(rows, LAMBDA r : \A j \in 1..Len(r) : r[j] # None)
    IN  [i \in 1..Len(kept) |-> [j \in 1..Len(kept[i]) |-> CsvCell(kept[i][j])]]

\* the csv rows of the DataFrame built from the namedtuples
CsvRows(rows) ==
    [i \in 1..Len(rows) |-> [j \in 1..Len(rows[i]) |-> CsvCell(rows[i][j])]]

\* to_csv with the bug of a path that does not depend on idx
ToCsvSameFile(fs, file_path, rows) ==
    (fmt_file_path(0) :> [header |-> HousingData, rows |-> CsvRows(rows)]) @@ fs

\* pd.DataFrame(list(parcel_data)).to_csv(file_path, header=True, index=False)
\* on the directory fs: the file is created or replaced; its header is the
\* namedtuple's fields.
to_csv(fs, file_path, rows) ==
    (file_path :> [header |-> HousingData, rows |-> CsvRows(rows)]) @@ fs

\* ------------------------------------------------------------- the state
VARIABLES
    parcel_numbers, \* the parcel numbers read from parcel-numbers.csv, in order
    window_size,    \* the step of the range and the length of the iloc slice
    start_offset,   \* the first argument of the range
    pc,             \* where main is: "main", "for", "apply", "quit", "done", "crashed"
    driver,         \* the selenium session
    idx,            \* the loop variable: at "for", the next value of the range
    mini_batch,     \* the window's parcel numbers
    parcel_data,    \* the rows mini_batch.apply has produced so far
    files,          \* data/processed as this run has written it: path -> csv
    error,          \* the exception that ended the program, None if none did
    calls,          \* the browser calls and prints made by the last step of main
    failed,         \* <<position, try block>> of every except that has run
    opens,          \* the number of browsers launched
    closes,         \* the number of driver.quit() calls that returned
    stubbed,        \* the browser is a deterministic stub: a page always answers alike
    site,           \* stubbed: the stub's answer per parcel, {} until first asked
    run,            \* 1 for the first run of the program, 2 for a re-run
    fullFiles       \* the files the first run wrote, kept for a re-run

vars ==
    << parcel_numbers, window_size, start_offset, pc, driver, idx, mini_batch,
       parcel_data, files, error, calls, failed, opens, closes,
       stubbed, site, run, fullFiles >>

input == << parcel_numbers, window_size, start_offset, stubbed, run, fullFiles >>

\* The parcel number lists of at most MaxLen rows: the rows all distinct
\* ("001", "002", "003", ..), or repeating ("001", "002", "001", ..).
ParcelLists ==
    { [i \in 1..n |-> Parcel(1 + ((i - 1) % m))] : n \in 0..MaxLen, m \in {2, MaxLen} }

\* URLS['parcel-id-data-fmt'].format(parcel_id = '')
empty_parcel_url == parcel_id_data_fmt("")

NoError == [in |-> None, call |-> None]

\* the program's state when it is started
Fresh ==
    /\ pc = "main"
    /\ driver = NoDriver
    /\ idx = start_offset
    /\ mini_batch = << >>
    /\ parcel_data = << >>
    /\ files = << >>
    /\ error = NoError
    /\ calls = << >>
    /\ failed = {}
    /\ opens = 0
    /\ closes = 0

\* A run of the program on any parcel list, window size and start offset,
\* against a browser that may answer differently every time.  idx holds the
\* first value of the range from the start.
Init ==
    /\ parcel_numbers \in ParcelLists
    /\ window_size \in 1..MaxWindow
    /\ start_offset \in 0..MaxStart
    /\ stubbed = FALSE
    /\ site = [p \in ParcelIds |-> {}]
    /\ run = 1
    /\ fullFiles = << >>
    /\ Fresh

\* The answers of the deterministic stubs: a page of the stub shows all the
\* residential fields or lacks the first of them.
StubAnswers == { a \in ScrapeAnswers : a.residential \in {0, 1} }

\* The browser's possible behaviours while `row` is scraped: any, or for a
\* stub the one it gave for that parcel before.
Answers(row) ==
    IF ~stubbed THEN ScrapeAnswers
    ELSE IF site[row] # {} THEN site[row]
    ELSE StubAnswers

\* an exception raised by `call` inside `in` escapes main: the program ends
Crash(in, call) ==
    /\ pc' = "crashed"
    /\ error' = [in |-> in, call |-> call]

\* ----------------------------------------------------------------- main
\* driver = prepare_webdriver(empty_parcel_url)
PrepareWebdriver(ans) ==
    /\ pc = "main"
    /\ LET r == prepare_webdriver(empty_parcel_url, ans)
       IN  /\ driver' = r.driver
           /\ calls' = r.calls
           /\ opens' = IF r.driver.open THEN opens + 1 ELSE opens
           /\ IF r.raised
                THEN Crash("prepare_webdriver", r.error)
                ELSE pc' = "for" /\ error' = error
    /\ idx' = start_offset
    /\ UNCHANGED << input, site, mini_batch, parcel_data, files, failed, closes >>

\* MiniBatch with the bug of a slice counted from the start offset
MiniBatchOfRemaining ==
    iloc(parcel_numbers, idx - start_offset, idx - start_offset + window_size)

\* parcel_numbers.iloc[idx:idx+step, ]
MiniBatch == iloc(parcel_numbers, idx, idx + window_size)

\* for idx in range(start, parcel_numbers.shape[0], step): the next window
\* mini_batch = parcel_numbers.iloc[idx:idx+step, ]
ForBody ==
    /\ pc = "for"
    /\ idx < Len(parcel_numbers)
    /\ mini_batch' = MiniBatch
    /\ parcel_data' = << >>
    /\ pc' = "apply"
    /\ calls' = << >>
    /\ UNCHANGED << input, site, driver, idx, files, error, failed, opens, closes >>

\* the range is exhausted
ForExit ==
    /\ pc = "for"
    /\ ~(idx < Len(parcel_numbers))
    /\ pc' = "quit"
    /\ calls' = << >>
    /\ UNCHANGED << input, site, driver, idx, mini_batch, parcel_data, files,
                    error, failed, opens, closes >>

\* mini_batch.apply(partial_scrape_parcel_data, axis=1): the call for the
\* next row of the window
ScrapeParcelData(ans) ==
    /\ pc = "apply"
    /\ Len(parcel_data) < Len(mini_batch)
    /\ LET row == mini_batch[Len(parcel_data) + 1]
           position == idx + Len(parcel_data)
           r == scrape_parcel_data(row, driver, ans)
       IN  /\ ans \in Answers(row)
           /\ driver' = r.driver
           /\ calls' = r.calls
           /\ site' = IF stubbed THEN [site EXCEPT ![row] = {ans}] ELSE site
           /\ IF r.raised
                THEN /\ Crash("scrape_parcel_data", r.error)
                     /\ UNCHANGED << parcel_data, failed >>
                ELSE /\ parcel_data' = Append(parcel_data, r.row)
                     /\ failed' = failed \cup { << position, g >> : g \in r.failed }
                     /\ UNCHANGED << pc, error >>
    /\ UNCHANGED << input, idx, mini_batch, files, opens, closes >>

\* pd.DataFrame(list(parcel_data)).to_csv(file_path, ...), then the next idx
SaveWindow ==
    /\ pc = "apply"
    /\ Len(parcel_data) = Len(mini_batch)
    /\ files' = to_csv(files, fmt_file_path(idx), parcel_data)
    /\ idx' = idx + window_size
    /\ pc' = "for"
    /\ calls' = << >>
    /\ UNCHANGED << input, site, driver, mini_batch, parcel_data, error,
                    failed, opens, closes >>

\* to_csv raises (disk full, directory missing): the file is absent, or
\* holds only the first rows of the window
SaveWindowFails ==
    /\ pc = "apply"
    /\ Len(parcel_data) = Len(mini_batch)
    /\ \E n \in 0..Len(parcel_data) :
          files' = IF n = 0 THEN files
                   ELSE to_csv(files, fmt_file_path(idx), SubSeq(parcel_data, 1, n - 1))
    /\ Crash("main", "to_csv")
    /\ calls' = << >>
    /\ UNCHANGED << input, site, driver, idx, mini_batch, parcel_data,
                    failed, opens, closes >>

\* driver.quit()
QuitDriver ==
    /\ pc = "quit"
    /\ driver' = Quit(driver)
    /\ closes' = closes + 1
    /\ pc' = "done"
    /\ calls' = << Call("quit", None, driver, TRUE) >>
    /\ UNCHANGED << input, site, idx, mini_batch, parcel_data, files, error,
                    failed, opens >>

Next ==
    \/ \E ans \in PrepareAnswers : PrepareWebdriver(ans)
    \/ ForBody
    \/ ForExit
    \/ \E ans \in ScrapeAnswers : ScrapeParcelData(ans)
    \/ SaveWindow
    \/ SaveWindowFails
    \/ QuitDriver

Spec == Init /\ [][Next]_vars

\* --------------------------------------------------------------- re-runs
\* A full run from offset 0 against a deterministic stub of the browser.
InitResume ==
    /\ parcel_numbers \in ParcelLists
    /\ window_size \in 1..MaxWindow
    /\ start_offset = 0
    /\ stubbed = TRUE
    /\ site = [p \in ParcelIds |-> {}]
    /\ run = 1
    /\ fullFiles = << >>
    /\ Fresh

\* The program is started again with range(k, ...) for a nonzero k, on the
\* same parcel list and against the same stub.
Resume(k) ==
    /\ run = 1
    /\ pc = "done"
    /\ run' = 2
    /\ start_offset' = k
    /\ fullFiles' = files
    /\ pc' = "main"
    /\ driver' = NoDriver
    /\ idx' = k
    /\ mini_batch' = << >>
    /\ parcel_data' = << >>
    /\ files' = << >>
    /\ error' = NoError
    /\ calls' = << >>
    /\ failed' = {}
    /\ opens' = 0
    /\ closes' = 0
    /\ UNCHANGED << parcel_numbers, window_size, stubbed, site >>

NextResume ==
    \/ Next
    \/ \E k \in 1..MaxStart : Resume(k)

SpecResume == InitResume /\ [][NextResume]_vars

\* ------------------------------------------------------------ properties
N == Len(parcel_numbers)

\* the position of each field in a row
FieldIndex ==
    [name \in { HousingData[i] : i \in 1..Len(HousingData) } |->
        CHOOSE i \in 1..Len(HousingData) : HousingData[i] = name]

Field(row, name) == row[FieldIndex[name]]

ResidentialFields ==
    { "numStories", "yearBuilt", "numBedrooms", "numFullBaths", "numHalfBaths",
      "livingArea", "basement", "basementArea" }

\* the start offsets of the windows of this run
WindowOffsets ==
    { o \in 0..(N - 1) : o >= start_offset /\ (o - start_offset) % window_size = 0 }

OffsetOf(file_path) == file_path[2]

\* a scrape_parcel_data call has just returned its row to apply
ScrapeReturned == pc = "apply" /\ calls # << >>

LastRow == parcel_data[Len(parcel_data)]

\* the calls of the last step that look up a residential element
ResidentialLookups ==
    { i \in 1..Len(calls) :
        /\ calls[i].op = "find_element_by_id"
        /\ \E k \in 1..Len(residential_ids) : calls[i].arg = residential_ids[k] }

FailedLookup(id) ==
    \E i \in 1..Len(calls) :
        calls[i].op = "find_element_by_id" /\ calls[i].arg = id /\ ~calls[i].ok

\* One file per window of the run and no other; each holds the window's
\* rows in list order under the header of the eleven field names.
CompleteFiles ==
    /\ DOMAIN files = { fmt_file_path(o) : o \in WindowOffsets }
    /\ \A o \in WindowOffsets :
          LET f == files[fmt_file_path(o)]
          IN  /\ f.header = HousingData
              /\ Len(f.rows) = Min(window_size, N - o)
              /\ \A j \in 1..Len(f.rows) :
                    Field(f.rows[j], "parcelNumber") = parcel_numbers[o + j]

\* C1: scrape_parcel_data never ends by raising, whatever call of the
\* browser fails (navigation, script, lookup, text), and every row it returns
\* has the eleven fields in order with parcelNumber the input parcel number.
C1_ExtractNeverFails ==
    /\ ~(pc = "crashed" /\ error.in = "scrape_parcel_data")
    /\ HousingData = << "parcelNumber", "address", "appraisedValue", "numStories",
                        "yearBuilt", "numBedrooms", "numFullBaths", "numHalfBaths",
                        "livingArea", "basement", "basementArea" >>
    /\ pc = "apply" =>
          \A i \in 1..Len(parcel_data) :
              /\ Len(parcel_data[i]) = Len(HousingData)
              /\ Field(parcel_data[i], "parcelNumber") = mini_batch[i]
              /\ Field(parcel_data[i], "parcelNumber") # None

\* C2: when a residential lookup fails, all eight residential fields of the
\* returned row are None (those read before the failure too), no residential
\* lookup is made after the failing one, and address and appraisedValue are
\* None only if their own lookup failed; so the residential fields of every
\* row are all read or all None.
C2_ResidentialAllOrNothing ==
    /\ \A i \in 1..Len(parcel_data) :
          \/ \A f \in ResidentialFields : Field(parcel_data[i], f) = None
          \/ \A f \in ResidentialFields : Field(parcel_data[i], f) # None
    /\ \A p \in DOMAIN files : \A j \in 1..Len(files[p].rows) :
          \/ \A f \in ResidentialFields : Field(files[p].rows[j], f) = ""
          \/ \A f \in ResidentialFields : Field(files[p].rows[j], f) # ""
    /\ ScrapeReturned =>
          /\ \A i \in ResidentialLookups : ~calls[i].ok => i = Len(calls)
          /\ (\E i \in ResidentialLookups : ~calls[i].ok) <=>
                (\A f \in ResidentialFields : Field(LastRow, f) = None)
          /\ (\A i \in ResidentialLookups : calls[i].ok) =>
                \A k \in 1..Len(residential_ids) :
                    LastRow[3 + k] = << driver.url, residential_ids[k] >>
          /\ Field(LastRow, "address") = None <=> FailedLookup(address_id)
          /\ Field(LastRow, "appraisedValue") = None <=> FailedLookup(valuation_id)

\* a row returned after the third residential lookup failed, its address and
\* valuation read
C2_Witness ==
    /\ ScrapeReturned
    /\ FailedLookup(residential_ids[3])
    /\ Field(LastRow, "address") # None
    /\ Field(LastRow, "appraisedValue") # None

\* C3: a run that leaves the loop has written exactly one file per offset
\* start, start+w, .. below the list's length, the file of offset o holds
\* min(w, n-o) rows and its j-th row is the row of parcel_numbers[o+j]; so
\* every position from the start offset on is in exactly one file, once.
C3_WindowsPartition ==
    pc \in {"quit", "done"} =>
        /\ CompleteFiles
        /\ \A q \in 0..(N - 1) : q >= start_offset =>
              Cardinality({ o \in WindowOffsets :
                              /\ fmt_file_path(o) \in DOMAIN files
                              /\ o <= q
                              /\ q < o + Len(files[fmt_file_path(o)].rows) }) = 1

\* three parcels in windows of two from offset 0: a full and a short window
C3_Witness ==
    /\ pc = "done"
    /\ N = 3 /\ window_size = 2 /\ start_offset = 0
    /\ Cardinality(DOMAIN files) = 2

\* the files of the re-run are the files of the full run from its start on
SameAsFullRun ==
    /\ DOMAIN files = { p \in DOMAIN fullFiles : OffsetOf(p) >= start_offset }
    /\ \A p \in DOMAIN files : files[p] = fullFiles[p]

\* C4 as claimed: a re-run from any nonzero offset k writes the files, names
\* and rows, that the full run from 0 wrote from position k on.
C4_ResumeAnyOffset ==
    (run = 2 /\ pc = "done") => SameAsFullRun

\* C4 amended: a re-run from a nonzero offset k that is a multiple of the
\* window size writes the files, names and rows, that the full run from 0
\* wrote from position k on.
C4_ResumeAtWindowStart ==
    (run = 2 /\ pc = "done" /\ start_offset % window_size = 0) => SameAsFullRun

\* a re-run from the second window of two that wrote its file, with a lookup
\* that failed
C4_Witness ==
    /\ run = 2 /\ pc = "done"
    /\ window_size = 2 /\ start_offset = 2
    /\ files # << >>
    /\ failed # {}

\* C5: at every point of a run the file of every window before the current
\* one is written in full, so no window's extraction starts before, and the
\* rows not yet in a file are those of the window in progress, at most w.
C5_FlushedBeforeNextWindow ==
    /\ \A o \in WindowOffsets : o < idx =>
          /\ fmt_file_path(o) \in DOMAIN files
          /\ Len(files[fmt_file_path(o)].rows) = Min(window_size, N - o)
          /\ \A j \in 1..Len(files[fmt_file_path(o)].rows) :
                Field(files[fmt_file_path(o)].rows[j], "parcelNumber")
                    = parcel_numbers[o + j]
    /\ pc = "apply" =>
          /\ Len(parcel_data) <= Len(mini_batch)
          /\ Len(mini_batch) <= window_size
          /\ \A p \in DOMAIN files : OffsetOf(p) < idx

\* the run dies in the second window: the first window's file is there
C5_Witness ==
    /\ pc = "crashed" /\ error.in = "scrape_parcel_data"
    /\ idx > start_offset
    /\ fmt_file_path(start_offset) \in DOMAIN files

\* C6: once prepare_webdriver has returned the session, however the program
\* ends, by reaching the end or by an exception escaping the loop, the
\* browser session is closed.
C6_SessionClosedOnExit ==
    (pc = "done" \/ (pc = "crashed" /\ error.in # "prepare_webdriver")) =>
        ~driver.open

\* prepare_webdriver has just returned
JustPrepared == pc = "for" /\ calls # << >> /\ calls[1].op = "Firefox"

\* C7: once the browser is launched and on the initial URL, prepare_webdriver
\* returns the open session whether or not the disclaimer button is found
\* and clicked: a failure is printed, the button is looked up once, and the
\* session returned is the same in both cases.
C7_DisclaimerTolerated ==
    /\ (pc = "crashed" /\ error.in = "prepare_webdriver") =>
          error.call \in {"Firefox", "get"}
    /\ JustPrepared =>
          /\ driver = [open |-> TRUE, url |-> empty_parcel_url, script |-> None]
          /\ Cardinality({ i \in 1..Len(calls) :
                              calls[i].op = "find_element_by_id" }) = 1
          /\ Cardinality({ i \in 1..Len(calls) : calls[i].op = "click" }) <= 1
          /\ (\E i \in 1..Len(calls) : ~calls[i].ok) <=>
                calls[Len(calls)].op = "print"

\* prepare_webdriver returned after the lookup of the button failed
C7_Witness ==
    /\ JustPrepared
    /\ driver.open
    /\ \E i \in 1..Len(calls) :
          calls[i].op = "find_element_by_id" /\ ~calls[i].ok

\* the row at (0-based) position q of the list, as scraped: each field is
\* null if the except of its try block ran for that position, else the
\* text of its element on the parcel's page
RowAsScraped(r, q, null) ==
    LET url == parcel_id_data_fmt(parcel_numbers[q + 1])
    IN  /\ Field(r, "parcelNumber") = parcel_numbers[q + 1]
        /\ Field(r, "address") =
              IF << q, "address" >> \in failed THEN null ELSE << url, address_id >>
        /\ Field(r, "appraisedValue") =
              IF << q, "valuation" >> \in failed THEN null ELSE << url, valuation_id >>
        /\ \A k \in 1..Len(residential_ids) :
              r[3 + k] = IF << q, "residential" >> \in failed THEN null
                         ELSE << url, residential_ids[k] >>

\* C8: a failed lookup never ends the run; it nulls the fields of its own
\* try block in the row of its own parcel and no other field of any row,
\* and the run writes the files, row counts and parcel numbers it writes
\* without failures.
C8_FieldFailuresIsolated ==
    /\ pc = "crashed" =>
          error.call \in {"Firefox", "get", "execute_script", "to_csv"}
    /\ \A p \in DOMAIN files : \A j \in 1..Len(files[p].rows) :
          RowAsScraped(files[p].rows[j], OffsetOf(p) + j - 1, "")
    /\ pc = "apply" =>
          \A i \in 1..Len(parcel_data) :
              RowAsScraped(parcel_data[i], idx + i - 1, None)
    /\ pc \in {"quit", "done"} => CompleteFiles

\* a finished run in which a residential lookup failed for the first parcel
\* and nothing failed for the second
C8_Witness ==
    /\ pc = "done" /\ start_offset = 0 /\ N >= 2
    /\ << 0, "residential" >> \in failed
    /\ << 0, "address" >> \notin failed
    /\ \A g \in {"address", "valuation", "residential"} : << 1, g >> \notin failed

\* C9: one browser is opened, before the first extraction; it is open at
\* every call made on it in every window; it is closed once, after the last
\* window's file is written, and nothing is called on it afterwards.
C9_SessionLifetime ==
    /\ opens <= 1 /\ closes <= 1
    /\ pc = "main" => opens = 0 /\ parcel_data = << >> /\ files = << >>
    /\ pc \in {"for", "apply", "quit"} => driver.open /\ opens = 1 /\ closes = 0
    /\ pc = "done" => ~driver.open /\ opens = 1 /\ closes = 1 /\ CompleteFiles
    /\ \A i \in 1..Len(calls) : calls[i].op # "Firefox" => calls[i].open
    /\ closes = 1 => pc = "done"

\* a run that wrote two windows and closed the browser
C9_Witness ==
    /\ pc = "done"
    /\ Cardinality(DOMAIN files) >= 2
    /\ closes = 1

\* the calls of the last step are those of a scrape_parcel_data call
ScrapeCalls ==
    /\ calls # << >> /\ calls[1].op = "get"
    /\ pc = "apply" \/ (pc = "crashed" /\ error.in = "scrape_parcel_data")

\* the parcel that call was made for
ScrapedParcel ==
    IF pc = "apply" THEN Field(LastRow, "parcelNumber")
    ELSE mini_batch[Len(parcel_data) + 1]

\* the calls of scrape_parcel_data in order when none raises
ExpectedCalls(parcel) ==
    << << "get", parcel_id_data_fmt(parcel) >>,
       << "find_element_by_id", address_id >>,
       << "execute_script", "__doPostBack('ctl00$ContentPlaceHolder1$mnuData','2')" >>,
       << "find_element_by_id", valuation_id >>,
       << "execute_script", "__doPostBack('ctl00$ContentPlaceHolder1$mnuData','8')" >> >>
    \o [k \in 1..Len(residential_ids) |-> << "find_element_by_id", residential_ids[k] >>]

\* the script that shows the sub-view of an element, None for the base view
SubViewScript(id) ==
    IF id = address_id THEN None
    ELSE IF id = valuation_id
      THEN "__doPostBack('ctl00$ContentPlaceHolder1$mnuData','2')"
    ELSE "__doPostBack('ctl00$ContentPlaceHolder1$mnuData','8')"

\* C10: the calls of an extraction come in the order get, address, valuation
\* script, valuation, residential script, residential fields; at every
\* lookup the session's last navigation was to the page of the parcel being
\* extracted and the last script since then is the one of the field's
\* sub-view (none for the address).
C10_ReadAfterNavigate ==
    ScrapeCalls =>
        \A i \in 1..Len(calls) :
            /\ i <= Len(ExpectedCalls(ScrapedParcel))
            /\ << calls[i].op, calls[i].arg >> = ExpectedCalls(ScrapedParcel)[i]
            /\ calls[i].op = "find_element_by_id" =>
                  /\ calls[i].url = parcel_id_data_fmt(ScrapedParcel)
                  /\ calls[i].script = SubViewScript(calls[i].arg)

\* the second parcel of the list extracted in full, after the first, on the
\* same session
C10_Witness ==
    /\ ScrapeCalls /\ pc = "apply"
    /\ idx + Len(parcel_data) = 2
    /\ Len(calls) = 13
    /\ \A i \in 1..Len(calls) : calls[i].ok

====
